---- MODULE Spec2Model ----
(***************************************************************************)
(* A model of the cluster-art snapshot cache: the path scheme, the store   *)
(* queries of app.py and the three-phase layout migrator of                *)
(* cluster_art/migrate_cache.py.                                           *)
(*                                                                         *)
(* A file name is a sequence of one-character strings, a path is the       *)
(* sequence of its parts below the cache folder (<<>> is the cache folder  *)
(* itself).  The file system is the pair (files, dirs): files maps each    *)
(* file path to its contents, dirs is the set of directory paths.          *)
(***************************************************************************)
EXTENDS Integers, Sequences, FiniteSets, TLC

VARIABLES
    files,      \* file path -> contents
    dirs,       \* directory paths that exist (<<>> is cache_folder)
    pc,         \* position of the migrator: idle, phase1, phase2, phase3, done
    dry,        \* dry_run of the migrate_cache call in progress
    queue,      \* the part of sorted(all_flat) / sorted(all_hierarchical) still to visit
    todo,       \* the part of all_dirs still to visit (phase 3)
    counts,     \* flat_moved, flat_skipped, fixed, fix_skipped, dirs_removed of the call
    start,      \* the tree the call in progress started from
    last,       \* the last completed migrate_cache call (mode, tree before/after, counts)
    call,       \* the last store query of the serving layer and what it returned
    writer,     \* position of the save_to_cache call in progress
    log,        \* the save_to_cache calls that returned, oldest first
    response,   \* what the last reader of a cache file was handed
    probe,      \* the last evaluation of a pure function (path scheme, transformer)
    serve       \* the serving process: lifespan, periodic task, request handlers

vars == <<files, dirs, pc, dry, queue, todo, counts, start, last, call,
          writer, log, response, probe, serve>>

\* the variables of the migrator's call in progress
migratorVars == <<pc, dry, queue, todo, counts, start, last>>

\* the variables the migrator and the store queries leave alone
sideVars == <<writer, log, response, probe, serve>>

----------------------------------------------------------------------------
(* Strings *)

Digits == <<"0", "1", "2", "3", "4", "5", "6", "7", "8", "9">>

IsDigit(c) == \E i \in 1..10 : Digits[i] = c

DigitVal(c) == (CHOOSE i \in 1..10 : Digits[i] = c) - 1

\* The code point of a character (Python compares strings by code point).
Ord(c) ==
    CASE c = "." -> 46
      [] IsDigit(c) -> 48 + DigitVal(c)
      [] c = "g" -> 103
      [] c = "j" -> 106
      [] c = "n" -> 110
      [] c = "o" -> 111
      [] c = "s" -> 115
      [] c = "x" -> 120
      [] c = "z" -> 122

RECURSIVE StrLess(_, _)
\* s < t for Python strings.
StrLess(s, t) ==
    IF t = <<>> THEN FALSE
    ELSE IF s = <<>> THEN TRUE
    ELSE IF Ord(Head(s)) # Ord(Head(t)) THEN Ord(Head(s)) < Ord(Head(t))
    ELSE StrLess(Tail(s), Tail(t))

EndsWith(s, suf) ==
    /\ Len(s) >= Len(suf)
    /\ SubSeq(s, Len(s) - Len(suf) + 1, Len(s)) = suf

DotJson == <<".", "j", "s", "o", "n">>

DotGz == <<".", "g", "z">>

DotJsonGz == DotJson \o DotGz

\* The index of the last "." of a name that starts a suffix (pathlib: the dot is
\* not the first character and not the last), 0 when there is none.
LastDot(name) ==
    LET S == {i \in 2..(Len(name) - 1) : name[i] = "."}
    IN  IF S = {} THEN 0 ELSE CHOOSE i \in S : \A j \in S : j <= i

\* pathlib's PurePath.suffix
Suffix(name) ==
    IF LastDot(name) = 0 THEN <<>> ELSE SubSeq(name, LastDot(name), Len(name))

\* pathlib's PurePath.stem
PathStem(name) ==
    IF LastDot(name) = 0 THEN name ELSE SubSeq(name, 1, LastDot(name) - 1)

RECURSIVE DigitsValue(_)
\* The value of a string of decimal digits.
DigitsValue(s) ==
    IF s = <<>> THEN 0
    ELSE 10 * DigitsValue(SubSeq(s, 1, Len(s) - 1)) + DigitVal(s[Len(s)])

\* int(stem) succeeds: over the alphabet of Ord, a non-empty string of digits.
IntParses(s) == s # <<>> /\ \A i \in 1..Len(s) : IsDigit(s[i])

RECURSIVE Str(_)
\* str(n) for n >= 0: decimal, no leading zeros.
Str(n) == IF n < 10 THEN <<Digits[n + 1]>> ELSE Str(n \div 10) \o <<Digits[(n % 10) + 1]>>

RECURSIVE ZeroPad(_, _)
\* strftime's zero-padded field of the given width
ZeroPad(n, width) ==
    IF Len(Str(n)) >= width THEN Str(n) ELSE <<"0">> \o ZeroPad(n, width - 1)

----------------------------------------------------------------------------
(* The UTC calendar date of a unix timestamp (timestamp >= 0):             *)
(* datetime.fromtimestamp(timestamp, timezone.utc), proleptic Gregorian.   *)

DaysFromEpoch(timestamp) == timestamp \div 86400

\* the proleptic Gregorian date of a number of seconds since 1970-01-01 00:00
CivilDate(seconds) ==
    LET z    == DaysFromEpoch(seconds) + 719468
        era  == z \div 146097
        doe  == z - era * 146097
        yoe  == (doe - (doe \div 1460) + (doe \div 36524) - (doe \div 146096)) \div 365
        doy  == doe - (365 * yoe + (yoe \div 4) - (yoe \div 100))
        mp   == (5 * doy + 2) \div 153
        d    == doy - ((153 * mp + 2) \div 5) + 1
        m    == IF mp < 10 THEN mp + 3 ELSE mp - 9
        y    == yoe + era * 400 + (IF m <= 2 THEN 1 ELSE 0)
    IN  [year |-> y, month |-> m, day |-> d]

\* a mutant of UtcDate: datetime.fromtimestamp(timestamp), the host's local date
LocalDate(timestamp) == CivilDate(timestamp + probe.tz)

\* datetime.fromtimestamp(timestamp, tz=timezone.utc)
UtcDate(timestamp) == CivilDate(timestamp)

\* dt.strftime("%Y%m")
YearMonth(timestamp) ==
    ZeroPad(UtcDate(timestamp).year, 4) \o ZeroPad(UtcDate(timestamp).month, 2)

\* dt.strftime("%d")
Day(timestamp) == ZeroPad(UtcDate(timestamp).day, 2)

----------------------------------------------------------------------------
(* PathScheme *)

\* migrate_cache.get_cache_path_for_timestamp, relative to cache_folder
get_cache_path_for_timestamp(timestamp, extension) ==
    <<YearMonth(timestamp), Day(timestamp), Str(timestamp) \o extension>>

\* fetch_cache.get_cache_path_for_timestamp: always .json.gz
store_cache_path_for_timestamp(timestamp) ==
    <<YearMonth(timestamp), Day(timestamp), Str(timestamp) \o DotJsonGz>>

FileName(path) == path[Len(path)]

\* a mutant of TimestampStem: the ".json" left by ".json.gz" is not stripped
TimestampStemNoStrip(path) == PathStem(FileName(path))

\* the stem both get_timestamp_from_path functions parse
TimestampStem(path) ==
    LET stem == PathStem(FileName(path))
    IN  IF EndsWith(stem, DotJson) THEN SubSeq(stem, 1, Len(stem) - 5) ELSE stem

\* migrate_cache.get_timestamp_from_path: int | None
NoTimestamp == [valid |-> FALSE, value |-> 0]

get_timestamp_from_path(path) ==
    IF IntParses(TimestampStem(path))
    THEN [valid |-> TRUE, value |-> DigitsValue(TimestampStem(path))]
    ELSE NoTimestamp

\* app.get_timestamp_from_path: 0 on ValueError
app_get_timestamp_from_path(path) ==
    IF IntParses(TimestampStem(path)) THEN DigitsValue(TimestampStem(path)) ELSE 0

----------------------------------------------------------------------------
(* The file system *)

Parent(path) == SubSeq(path, 1, Len(path) - 1)

\* path and every directory above it, the cache folder included
Ancestors(path) == {SubSeq(path, 1, n) : n \in 0..Len(path)}

\* Path.exists()
Exists(fs, path) == path \in DOMAIN fs.files \/ path \in fs.dirs

\* any(dirpath.iterdir())
HasEntries(fs, dirpath) ==
    \/ \E f \in DOMAIN fs.files : Parent(f) = dirpath
    \/ \E d \in fs.dirs : d # <<>> /\ Parent(d) = dirpath

\* target.parent.mkdir(parents=True, exist_ok=True)
MkdirParents(fs, dirpath) == [fs EXCEPT !.dirs = fs.dirs \cup Ancestors(dirpath)]

\* shutil.move(src, dst) of a file: os.rename, which replaces a file at dst
Move(fs, src, dst) ==
    [fs EXCEPT !.files =
        [p \in (DOMAIN fs.files \ {src}) \cup {dst} |->
            IF p = dst THEN fs.files[src] ELSE fs.files[p]]]

\* dirpath.rmdir()
Rmdir(fs, dirpath) == [fs EXCEPT !.dirs = fs.dirs \ {dirpath}]

Tree == [files |-> files, dirs |-> dirs]

RECURSIVE PathLess(_, _)
\* p < q for pathlib paths: part by part, each part as a string
PathLess(p, q) ==
    IF q = <<>> THEN FALSE
    ELSE IF p = <<>> THEN TRUE
    ELSE IF Head(p) # Head(q) THEN StrLess(Head(p), Head(q))
    ELSE PathLess(Tail(p), Tail(q))

RECURSIVE SortedDescending(_)
\* a mutant of Sorted: the greatest path first
SortedDescending(S) ==
    IF S = {} THEN <<>>
    ELSE LET greatest == CHOOSE p \in S : \A q \in S : q = p \/ PathLess(q, p)
         IN  <<greatest>> \o SortedDescending(S \ {greatest})

RECURSIVE Sorted(_)
\* sorted(paths)
Sorted(S) ==
    IF S = {} THEN <<>>
    ELSE LET least == CHOOSE p \in S : \A q \in S : q = p \/ PathLess(p, q)
         IN  <<least>> \o Sorted(S \ {least})

\* cache_folder.glob("*.json.gz") + cache_folder.glob("*.json"), files only
FlatFiles(fs) ==
    {p \in DOMAIN fs.files :
        /\ Len(p) = 1
        /\ EndsWith(FileName(p), DotJsonGz) \/ EndsWith(FileName(p), DotJson)}

\* cache_folder.glob("*/*/*.json.gz") + cache_folder.glob("*/*/*.json")
HierarchicalFiles(fs) ==
    {p \in DOMAIN fs.files :
        /\ Len(p) = 3
        /\ EndsWith(FileName(p), DotJsonGz) \/ EndsWith(FileName(p), DotJson)}

\* ".json.gz" if filepath.suffix == '.gz' else ".json"
Extension(path) == IF Suffix(FileName(path)) = DotGz THEN DotJsonGz ELSE DotJson

\* the hierarchical path a file belongs at (its timestamp is valid)
CorrectPath(path) ==
    get_cache_path_for_timestamp(get_timestamp_from_path(path).value, Extension(path))

----------------------------------------------------------------------------
(* The migrator: one migrate_cache call at a time, one loop iteration per step *)

ZeroCounts ==
    [flat_moved |-> 0, flat_skipped |-> 0, fixed |-> 0, fix_skipped |-> 0,
     dirs_removed |-> 0]

NoTree == [files |-> <<>>, dirs |-> {}]

\* migrate_cache is called; the cache folder is missing: all counts are zero
MigrateAbsent(d) ==
    /\ pc = "idle"
    /\ <<>> \notin dirs
    /\ last' = <<[dry |-> d, before |-> Tree, after |-> Tree, counts |-> ZeroCounts,
                   complete |-> TRUE]>>
    /\ UNCHANGED <<files, dirs, pc, dry, queue, todo, counts, start, call>>
    /\ UNCHANGED sideVars

\* migrate_cache is called; migrate_flat_files lists and sorts the flat files
MigrateStart(d) ==
    /\ pc = "idle"
    /\ <<>> \in dirs
    /\ pc' = "phase1"
    /\ dry' = d
    /\ start' = Tree
    /\ counts' = ZeroCounts
    /\ queue' = Sorted(FlatFiles(Tree))
    /\ UNCHANGED <<files, dirs, todo, last, call>>
    /\ UNCHANGED sideVars

\* a mutant of ReportsOnly: the dry run acts like a real run
ReportsOnlyNever(dry_run) == FALSE

\* "if dry_run: print(...) else: ..." of the three phases
ReportsOnly(dry_run) == dry_run

\* a mutant of FlatSkips: the target is not looked at
FlatSkipsInvalidOnly(fs, filepath) == ~get_timestamp_from_path(filepath).valid

\* whether migrate_flat_files skips filepath
FlatSkips(fs, filepath) ==
    \/ ~get_timestamp_from_path(filepath).valid
    \/ Exists(fs, CorrectPath(filepath))

\* one iteration of the loop of migrate_flat_files
FlatStep ==
    /\ pc = "phase1"
    /\ queue # <<>>
    /\ LET filepath == Head(queue)
       IN  IF FlatSkips(Tree, filepath)
           THEN /\ counts' = [counts EXCEPT !.flat_skipped = @ + 1]
                /\ UNCHANGED <<files, dirs>>
           ELSE /\ counts' = [counts EXCEPT !.flat_moved = @ + 1]
                /\ IF ReportsOnly(dry)
                   THEN UNCHANGED <<files, dirs>>
                   ELSE LET target == CorrectPath(filepath)
                            fs == Move(MkdirParents(Tree, Parent(target)), filepath, target)
                        IN  files' = fs.files /\ dirs' = fs.dirs
    /\ queue' = Tail(queue)
    /\ UNCHANGED <<pc, dry, todo, start, last, call>>
    /\ UNCHANGED sideVars

\* migrate_flat_files returns; fix_misplaced_files lists and sorts the hierarchical files
FixStart ==
    /\ pc = "phase1"
    /\ queue = <<>>
    /\ pc' = "phase2"
    /\ queue' = Sorted(HierarchicalFiles(Tree))
    /\ UNCHANGED <<files, dirs, dry, todo, counts, start, last, call>>
    /\ UNCHANGED sideVars

\* a mutant of FixDecision: a file in its place is not recognised
FixDecisionNoKeep(fs, filepath) ==
    IF ~get_timestamp_from_path(filepath).valid THEN "skip"
    ELSE IF Exists(fs, CorrectPath(filepath)) THEN "skip"
    ELSE "fix"

\* a mutant of FixDecision: an occupied correct path is overwritten
FixDecisionOverwrites(fs, filepath) ==
    IF ~get_timestamp_from_path(filepath).valid THEN "skip"
    ELSE IF filepath = CorrectPath(filepath) THEN "keep"
    ELSE "fix"

\* what one iteration of fix_misplaced_files does with filepath:
\* "skip", "keep" (already in its place) or "fix"
FixDecision(fs, filepath) ==
    IF ~get_timestamp_from_path(filepath).valid THEN "skip"
    ELSE IF filepath = CorrectPath(filepath) THEN "keep"
    ELSE IF Exists(fs, CorrectPath(filepath)) THEN "skip"
    ELSE "fix"

\* one iteration of the loop of fix_misplaced_files
FixStep ==
    /\ pc = "phase2"
    /\ queue # <<>>
    /\ LET filepath == Head(queue)
           decision == FixDecision(Tree, filepath)
       IN  /\ counts' =
                 IF decision = "skip" THEN [counts EXCEPT !.fix_skipped = @ + 1]
                 ELSE IF decision = "fix" THEN [counts EXCEPT !.fixed = @ + 1]
                 ELSE counts
           /\ IF decision = "fix" /\ ~ReportsOnly(dry)
              THEN LET correct_path == CorrectPath(filepath)
                       fs == Move(MkdirParents(Tree, Parent(correct_path)),
                                  filepath, correct_path)
                   IN  files' = fs.files /\ dirs' = fs.dirs
              ELSE UNCHANGED <<files, dirs>>
    /\ queue' = Tail(queue)
    /\ UNCHANGED <<pc, dry, todo, start, last, call>>
    /\ UNCHANGED sideVars

\* fix_misplaced_files returns; cleanup_empty_dirs lists the directories
CleanupStart ==
    /\ pc = "phase2"
    /\ queue = <<>>
    /\ pc' = "phase3"
    /\ todo' = dirs
    /\ UNCHANGED <<files, dirs, dry, queue, counts, start, last, call>>
    /\ UNCHANGED sideVars

\* whether cleanup_empty_dirs removes (or would remove) dirpath
CleanupRemoves(fs, dirpath) ==
    /\ dirpath # <<>>
    /\ dirpath \in fs.dirs
    /\ ~HasEntries(fs, dirpath)

\* a mutant of DeepestFirst: the directories are visited shallowest first
ShallowestFirst(remaining, dirpath) == \A other \in remaining : Len(dirpath) <= Len(other)

\* sorted(..., key=lambda p: len(p.parts), reverse=True): dirpath may be visited
\* next among the remaining directories
DeepestFirst(remaining, dirpath) == \A other \in remaining : Len(other) <= Len(dirpath)

\* one iteration of the loop of cleanup_empty_dirs: a deepest directory not yet
\* visited (glob's order among directories of one depth is the file system's)
CleanupStep ==
    /\ pc = "phase3"
    /\ \E dirpath \in todo :
        /\ DeepestFirst(todo, dirpath)
        /\ todo' = todo \ {dirpath}
        /\ IF CleanupRemoves(Tree, dirpath)
           THEN /\ counts' = [counts EXCEPT !.dirs_removed = @ + 1]
                /\ dirs' = IF ReportsOnly(dry) THEN dirs ELSE Rmdir(Tree, dirpath).dirs
           ELSE UNCHANGED <<counts, dirs>>
    /\ UNCHANGED <<files, pc, dry, queue, start, last, call>>
    /\ UNCHANGED sideVars

\* cleanup_empty_dirs returns; migrate_cache is about to return its counts
CleanupDone ==
    /\ pc = "phase3"
    /\ todo = {}
    /\ pc' = "done"
    /\ UNCHANGED <<files, dirs, dry, queue, todo, counts, start, last, call>>
    /\ UNCHANGED sideVars

\* migrate_cache returns
MigrateReturn ==
    /\ pc = "done"
    /\ last' = <<[dry |-> dry, before |-> start, after |-> Tree, counts |-> counts,
                   complete |-> TRUE]>>
    /\ pc' = "idle"
    /\ dry' = FALSE
    /\ counts' = ZeroCounts
    /\ start' = NoTree
    /\ UNCHANGED <<files, dirs, queue, todo, call>>
    /\ UNCHANGED sideVars

----------------------------------------------------------------------------
(* The trees the migrator starts from *)

MaxFiles == 2

D197001 == <<"1", "9", "7", "0", "0", "1">>

D196912 == <<"1", "9", "6", "9", "1", "2">>

\* the cache folder itself, the UTC bucket of 1970-01-01 and that of 1970-01-02
Locations == {<<>>, <<D197001, <<"0", "1">>>>, <<D197001, <<"0", "2">>>>}

\* 100 and 86400 in decimal, 100 with a leading zero, and a name that is no number
Stems ==
    {<<"1", "0", "0">>, <<"0", "1", "0", "0">>, <<"8", "6", "4", "0", "0">>, <<"x">>}

Universe ==
    {loc \o <<stem \o ext>> : loc \in Locations, stem \in Stems, ext \in {DotJsonGz, DotJson}}

\* directories that hold no file at the start
EmptyDirChoices == {{}, {<<D196912>>}, {<<D196912>>, <<D196912, <<"3", "1">>>>}}

RECURSIVE SubsetsUpTo(_, _)
SubsetsUpTo(S, k) ==
    IF k = 0 THEN {{}}
    ELSE LET R == SubsetsUpTo(S, k - 1)
         IN  R \cup {r \cup {x} : r \in R, x \in S}

\* every file starts with a payload of its own, named after the path it starts at
InitTree(F, E) ==
    /\ files = [p \in F |-> p]
    /\ dirs = UNION {Ancestors(Parent(p)) : p \in F} \cup E \cup {<<>>}

\* no save_to_cache call in progress
NoWrite == [pc |-> "idle", data |-> <<>>, timestamp |-> 0, filepath |-> <<>>]

\* no app.fetch_and_cache call has returned
NoCycle == [who |-> "none", outcome |-> "none", returned |-> <<>>]

\* the serving process before it is started: no request handler awaits a fetch,
\* last_fetch_time = None, fetch_error = None; cycle is the app.fetch_and_cache
\* call that returned last, cancelled_in where task.cancel() met the periodic task
NoServe ==
    [phase |-> "off", initial |-> "none", periodic |-> "none", handlers |-> 0,
     last_fetch_time |-> <<>>, fetch_error |-> <<>>, cycle |-> NoCycle,
     cancelled_in |-> "none"]

NoCall == [op |-> "none", arg |-> 0, resolved |-> <<>>, ret |-> <<>>]

InitRest ==
    /\ pc = "idle"
    /\ dry = FALSE
    /\ queue = <<>>
    /\ todo = {}
    /\ counts = ZeroCounts
    /\ start = NoTree
    /\ last = <<>>
    /\ call = NoCall
    /\ writer = NoWrite
    /\ log = <<>>
    /\ response = <<>>
    /\ probe = [tz |-> 0, result |-> <<>>]
    /\ serve = NoServe

Init ==
    /\ \/ \E F \in SubsetsUpTo(Universe, MaxFiles), E \in EmptyDirChoices : InitTree(F, E)
       \/ files = <<>> /\ dirs = {}
    /\ InitRest

Next ==
    \/ \E d \in BOOLEAN : MigrateAbsent(d)
    \/ \E d \in BOOLEAN : MigrateStart(d)
    \/ FlatStep
    \/ FixStart
    \/ FixStep
    \/ CleanupStart
    \/ CleanupStep
    \/ CleanupDone
    \/ MigrateReturn

Spec == Init /\ [][Next]_vars

\* the migrator process is stopped between two loop iterations of a phase (or
\* between two phases); it returns nothing.  before is the tree the first of a
\* row of stopped runs started from.
Interrupt ==
    /\ pc \in {"phase1", "phase2", "phase3"}
    /\ last' = <<[dry |-> dry,
                   before |-> IF last # <<>> /\ ~last[1].complete /\ last[1].after = start
                                 /\ last[1].dry = dry
                              THEN last[1].before ELSE start,
                   after |-> Tree, counts |-> ZeroCounts, complete |-> FALSE]>>
    /\ pc' = "idle"
    /\ dry' = FALSE
    /\ queue' = <<>>
    /\ todo' = {}
    /\ counts' = ZeroCounts
    /\ start' = NoTree
    /\ UNCHANGED <<files, dirs, call>>
    /\ UNCHANGED sideVars

\* real runs of the migrator, any of which may be stopped
NextInterrupt ==
    \/ MigrateAbsent(FALSE)
    \/ MigrateStart(FALSE)
    \/ FlatStep
    \/ FixStart
    \/ FixStep
    \/ CleanupStart
    \/ CleanupStep
    \/ CleanupDone
    \/ MigrateReturn
    \/ Interrupt

SpecInterrupt == Init /\ [][NextInterrupt]_vars

----------------------------------------------------------------------------
(* The store queries of the serving layer (app.py).  An Optional[Path] is   *)
(* <<>> for None and <<path>> for a path.                                   *)

\* settings.cache_folder.glob("**/*" + suffix): at every depth
Glob(fs, suffix) == {p \in DOMAIN fs.files : EndsWith(FileName(p), suffix)}

\* all_files = gz_files + json_files, as a set
AllFiles(fs) == Glob(fs, DotJsonGz) \cup Glob(fs, DotJson)

\* max(all_files, key=get_timestamp_from_path) returns the first file of the list
\* that has the greatest key; gz_files come first, each glob in the file system's
\* order.  The set of files it can return.
MaxByTimestamp(fs) ==
    LET best(S) == {p \in S : \A q \in AllFiles(fs) :
                        app_get_timestamp_from_path(q) <= app_get_timestamp_from_path(p)}
    IN  IF best(Glob(fs, DotJsonGz)) # {} THEN best(Glob(fs, DotJsonGz))
        ELSE best(Glob(fs, DotJson))

\* get_latest_cached_file(): the values it can return
get_latest_cached_file(fs) ==
    IF <<>> \notin fs.dirs THEN {<<>>}
    ELSE IF AllFiles(fs) = {} THEN {<<>>}
    ELSE {<<p>> : p \in MaxByTimestamp(fs)}

RECURSIVE SortedTimestamps(_)
\* sorted([get_timestamp_from_path(f) for f in S]): one element per file
SortedTimestamps(S) ==
    IF S = {} THEN <<>>
    ELSE LET least == CHOOSE p \in S : \A q \in S :
                          app_get_timestamp_from_path(p) <= app_get_timestamp_from_path(q)
         IN  <<app_get_timestamp_from_path(least)>> \o SortedTimestamps(S \ {least})

\* get_all_cache_timestamps()
get_all_cache_timestamps(fs) ==
    IF <<>> \notin fs.dirs THEN <<>>
    ELSE SortedTimestamps({f \in AllFiles(fs) : app_get_timestamp_from_path(f) > 0})

Abs(n) == IF n < 0 THEN -n ELSE n

\* a mutant of MinReplaces: a later element of equal distance wins
MinReplacesOnTie(candidate, next, timestamp) ==
    Abs(next - timestamp) <= Abs(candidate - timestamp)

\* whether min() replaces its candidate by the next element of the list
MinReplaces(candidate, next, timestamp) == Abs(next - timestamp) < Abs(candidate - timestamp)

RECURSIVE MinFrom(_, _, _)
\* min(..., key=lambda t: abs(t - timestamp)) over the rest of the list
MinFrom(candidate, rest, timestamp) ==
    IF rest = <<>> THEN candidate
    ELSE IF MinReplaces(candidate, Head(rest), timestamp)
         THEN MinFrom(Head(rest), Tail(rest), timestamp)
         ELSE MinFrom(candidate, Tail(rest), timestamp)

InList(x, list) == \E i \in 1..Len(list) : list[i] = x

\* target_ts of get_cache_file_by_timestamp (timestamps is not empty)
TargetTs(timestamps, timestamp) ==
    IF InList(timestamp, timestamps) THEN timestamp
    ELSE MinFrom(Head(timestamps), Tail(timestamps), timestamp)

\* the probes of get_cache_file_by_timestamp, in order
ProbeTarget(fs, target_ts) ==
    LET gz_path == store_cache_path_for_timestamp(target_ts)
        flat_gz_path == <<Str(target_ts) \o DotJsonGz>>
        flat_json_path == <<Str(target_ts) \o DotJson>>
    IN  IF Exists(fs, gz_path) THEN <<gz_path>>
        ELSE IF Exists(fs, flat_gz_path) THEN <<flat_gz_path>>
        ELSE IF Exists(fs, flat_json_path) THEN <<flat_json_path>>
        ELSE <<>>

\* get_cache_file_by_timestamp(timestamp): target_ts (when reached) and the result
get_cache_file_by_timestamp(fs, timestamp) ==
    LET timestamps == get_all_cache_timestamps(fs)
    IN  IF timestamps = <<>> THEN [resolved |-> <<>>, ret |-> <<>>]
        ELSE [resolved |-> <<TargetTs(timestamps, timestamp)>>,
              ret |-> ProbeTarget(fs, TargetTs(timestamps, timestamp))]

\* latest()
Latest ==
    /\ pc = "idle"
    /\ \E r \in get_latest_cached_file(Tree) :
         call' = [op |-> "latest", arg |-> 0, resolved |-> <<>>, ret |-> r]
    /\ UNCHANGED <<files, dirs, pc, dry, queue, todo, counts, start, last>>
    /\ UNCHANGED sideVars

\* allTimestamps()
AllTimestamps ==
    /\ pc = "idle"
    /\ call' = [op |-> "all", arg |-> 0, resolved |-> <<>>,
                ret |-> get_all_cache_timestamps(Tree)]
    /\ UNCHANGED <<files, dirs, pc, dry, queue, todo, counts, start, last>>
    /\ UNCHANGED sideVars

\* at(timestamp)
At(timestamp) ==
    /\ pc = "idle"
    /\ LET found == get_cache_file_by_timestamp(Tree, timestamp)
       IN  call' = [op |-> "at", arg |-> timestamp,
                    resolved |-> found.resolved, ret |-> found.ret]
    /\ UNCHANGED <<files, dirs, pc, dry, queue, todo, counts, start, last>>
    /\ UNCHANGED sideVars

\* a mutant of InWindow: the end of the window is excluded
InWindowHalfOpen(ts, window_start, window_end) == window_start <= ts /\ ts < window_end

\* start <= ts <= end of get_timepoints
InWindow(ts, window_start, window_end) == window_start <= ts /\ ts <= window_end

\* get_timepoints(start, days) at the clock reading now: window_start, window_end
\* and timestamps of the response (all None / [] when there is no timestamp)
get_timepoints(fs, start_arg, days, now) ==
    LET all_timestamps == get_all_cache_timestamps(fs)
        window_seconds == days * 86400
        window_start == IF start_arg = <<>> THEN now - window_seconds ELSE start_arg[1]
        window_end == window_start + window_seconds
    IN  IF all_timestamps = <<>>
        THEN [window_start |-> <<>>, window_end |-> <<>>, timestamps |-> <<>>]
        ELSE [window_start |-> <<window_start>>, window_end |-> <<window_end>>,
              timestamps |-> SelectSeq(all_timestamps,
                                 LAMBDA ts : InWindow(ts, window_start, window_end))]

\* GET /api/timepoints
Timepoints(start_arg, days, now) ==
    /\ pc = "idle"
    /\ LET found == get_timepoints(Tree, start_arg, days, now)
       IN  call' = [op |-> "window", arg |-> days, resolved |-> found.window_start,
                    ret |-> found.timestamps]
    /\ UNCHANGED <<files, dirs, pc, dry, queue, todo, counts, start, last>>
    /\ UNCHANGED sideVars

\* start of /api/timepoints: absent, or a window that starts or ends on a stored
\* timestamp or just after one
StartArgs == {<<>>, <<0>>, <<100>>, <<101>>}

\* days of /api/timepoints
DaysArgs == {1, 2}

\* the reading of datetime.now(): 500 seconds into 1970-01-02
Clock == {86900}

\* 100, 500 and 86400 in decimal, the epoch, and a name that is no number
StoreStems ==
    {<<"1", "0", "0">>, <<"5", "0", "0">>, <<"8", "6", "4", "0", "0">>, <<"0">>, <<"x">>}

StoreUniverse ==
    {loc \o <<stem \o ext>> :
        loc \in Locations, stem \in StoreStems, ext \in {DotJsonGz, DotJson}}

\* a stored timestamp, the midpoints of 100/500 and of 100/86400, and timestamps
\* nearer to one stored timestamp than to the others
Requests == {100, 300, 301, 43250, 90000}

InitStore ==
    /\ \/ \E F \in SubsetsUpTo(StoreUniverse, MaxFiles) : InitTree(F, {})
       \/ files = <<>> /\ dirs = {}
    /\ InitRest

NextStore ==
    \/ Latest
    \/ AllTimestamps
    \/ \E timestamp \in Requests : At(timestamp)

SpecStore == InitStore /\ [][NextStore]_vars

NextTimepoints ==
    \E start_arg \in StartArgs, days \in DaysArgs, now \in Clock :
        Timepoints(start_arg, days, now)

\* the /api/timepoints requests on a store at rest
SpecTimepoints == InitStore /\ [][NextTimepoints]_vars

----------------------------------------------------------------------------
(* Properties of the migrator, checked under Spec *)

\* the previous migrate_cache call, when the call in progress started from the
\* tree that call saw or left
Previous == last[1]

RunEnds == pc = "done"

\* the extension a cache file name carries
NameExtension(name) == IF EndsWith(name, DotJsonGz) THEN DotJsonGz ELSE DotJson

\* <root>/<YYYYMM>/<DD>/<T><ext> for the timestamp T and the extension of a file
Home(path) ==
    get_cache_path_for_timestamp(get_timestamp_from_path(path).value,
                                 NameExtension(FileName(path)))

HasTimestamp(path) == get_timestamp_from_path(path).valid

Visited(fs, path) == path \in DOMAIN fs.files /\ ~InList(path, queue)

\* the number of files of a tree that hold a given payload
Copies(fs, payload) == Cardinality({p \in DOMAIN fs.files : fs.files[p] = payload})

Payloads(fs) == {fs.files[p] : p \in DOMAIN fs.files}

\* C1: a real run that starts from the tree a real run left reports no relocation
\* (flat_moved = 0, fixed = 0), no deleted directory (dirs_removed = 0) and leaves
\* the tree as it found it.
C1_SecondRunIdle ==
    (RunEnds /\ ~dry /\ last # <<>> /\ ~Previous.dry /\ Previous.after = start)
        => /\ counts.flat_moved = 0
           /\ counts.fixed = 0
           /\ counts.dirs_removed = 0
           /\ Tree = start

\* a second real run ends after a first one that moved a flat file, fixed a
\* misplaced one and removed a directory
C1_Witness ==
    /\ RunEnds /\ ~dry /\ last # <<>> /\ ~Previous.dry /\ Previous.after = start
    /\ Previous.counts.flat_moved > 0
    /\ Previous.counts.fixed > 0
    /\ Previous.counts.dirs_removed > 0

\* C2: a dry run and a real run from the same tree report the same flat_moved,
\* flat_skipped, fixed and fix_skipped.
C2_DryRunSameDecisions ==
    (RunEnds /\ last # <<>> /\ Previous.dry # dry /\ Previous.before = start)
        => /\ counts.flat_moved = Previous.counts.flat_moved
           /\ counts.flat_skipped = Previous.counts.flat_skipped
           /\ counts.fixed = Previous.counts.fixed
           /\ counts.fix_skipped = Previous.counts.fix_skipped

\* C3: a step of phase 1 on a flat file whose hierarchical destination exists
\* leaves every file (the source and the destination with them) where and as it
\* is, counts the file as skipped and not as moved.
C3_FlatConflictSkipped ==
    [][(/\ pc = "phase1" /\ queue # <<>>
        /\ HasTimestamp(Head(queue))
        /\ Exists(Tree, Home(Head(queue))))
          => /\ files' = files
             /\ counts'.flat_skipped = counts.flat_skipped + 1
             /\ counts'.flat_moved = counts.flat_moved]_vars

\* phase 1 of a real run has skipped a flat file whose destination is occupied
C3_Witness ==
    /\ pc = "phase1" /\ ~dry
    /\ counts.flat_skipped > 0
    /\ \E f \in FlatFiles(Tree) :
         HasTimestamp(f) /\ Visited(Tree, f) /\ Home(f) \in DOMAIN files

\* C4: a step of phase 2 of a real run moves a misplaced file to its UTC-correct
\* path when that path is free and counts it as fixed; when the path is occupied
\* it changes no file and counts the file as skipped; a file in its place is
\* neither moved nor counted.  After phase 2 every misplaced file that is left
\* has its correct path occupied.
C4_FixStepRule ==
    [][(pc = "phase2" /\ queue # <<>> /\ ~dry /\ HasTimestamp(Head(queue)))
          => LET f == Head(queue)
             IN  /\ (f # Home(f) /\ ~Exists(Tree, Home(f)))
                       => /\ files' = Move(Tree, f, Home(f)).files
                          /\ f \notin DOMAIN files'
                          /\ files'[Home(f)] = files[f]
                          /\ counts'.fixed = counts.fixed + 1
                          /\ counts'.fix_skipped = counts.fix_skipped
                 /\ (f # Home(f) /\ Exists(Tree, Home(f)))
                       => /\ files' = files
                          /\ counts'.fix_skipped = counts.fix_skipped + 1
                          /\ counts'.fixed = counts.fixed
                 /\ (f = Home(f)) => (files' = files /\ counts' = counts)]_vars

C4_AfterPhase2 ==
    (pc \in {"phase3", "done"} /\ ~dry)
        => \A f \in HierarchicalFiles(Tree) :
              HasTimestamp(f) => (f = Home(f) \/ Exists(Tree, Home(f)))

C4_Misplaced == []C4_AfterPhase2 /\ C4_FixStepRule

\* phase 2 of a real run has fixed one misplaced file and skipped another whose
\* correct path was occupied
C4_Witness ==
    /\ pc = "phase2" /\ ~dry
    /\ counts.fixed = 1
    /\ counts.fix_skipped = 1
    /\ \A f \in DOMAIN files : HasTimestamp(f)

\* the flat files of the tree a run started from that have a valid timestamp and
\* nothing at their hierarchical destination
FreeFlat == {f \in FlatFiles(start) : HasTimestamp(f) /\ ~Exists(start, Home(f))}

Migrated(f) ==
    /\ f \notin DOMAIN files
    /\ Home(f) \in DOMAIN files
    /\ files[Home(f)] = start.files[f]

\* C5 as claimed: after a real run every flat file with a valid timestamp and no
\* file at its destination is gone, and its payload is at the destination.
C5_EveryFreeFlatMigrated == (RunEnds /\ ~dry) => \A f \in FreeFlat : Migrated(f)

\* the flat files that come before f in phase 1 and go to the same destination
Rivals(f) ==
    {g \in FlatFiles(start) : HasTimestamp(g) /\ Home(g) = Home(f) /\ PathLess(g, f)}

\* C5 as amended: ... and no flat file sorted before it that has the same
\* timestamp and extension.
C5_FirstFreeFlatMigrated ==
    (RunEnds /\ ~dry) => \A f \in FreeFlat : Rivals(f) = {} => Migrated(f)

\* a real run ends that started with two flat files of one destination
C5_Witness ==
    /\ RunEnds /\ ~dry
    /\ \E f \in FreeFlat : Rivals(f) # {}
    /\ \E f \in FreeFlat : Rivals(f) = {} /\ Migrated(f)

\* C6: at every point of a real run the tree holds the payloads it held when the
\* run started, each as many times, in as many files.
C6_NothingLost ==
    (pc # "idle" /\ ~dry)
        => /\ \A payload \in Payloads(start) \cup Payloads(Tree) :
                Copies(Tree, payload) = Copies(start, payload)
           /\ Cardinality(DOMAIN files) = Cardinality(DOMAIN start.files)

\* a real run ends in which phase 1 moved a file, phase 2 fixed or skipped one and
\* phase 3 removed a directory
C6_Witness ==
    /\ RunEnds /\ ~dry
    /\ counts.flat_moved > 0 /\ counts.fixed + counts.fix_skipped > 0
    /\ counts.dirs_removed > 0
    /\ Tree # start

----------------------------------------------------------------------------
(* Properties of the store queries, checked under SpecStore *)

\* the cache files whose name parses to a timestamp
ValidFiles == {f \in AllFiles(Tree) : HasTimestamp(f)}

TimestampOf(path) == get_timestamp_from_path(path).value

\* C7: at(timestamp) resolves to the requested timestamp when allTimestamps()
\* holds it, and otherwise to an element of allTimestamps() of least distance to
\* the request, the lowest of those; a file it returns carries that timestamp.
C7_AtResolvesNearest ==
    (call.op = "at")
        => LET timestamps == get_all_cache_timestamps(Tree)
               distance(t) == Abs(t - call.arg)
           IN  /\ (call.resolved = <<>>) <=> (timestamps = <<>>)
               /\ call.resolved # <<>> =>
                    LET target_ts == call.resolved[1]
                    IN  /\ InList(target_ts, timestamps)
                        /\ InList(call.arg, timestamps) => target_ts = call.arg
                        /\ \A i \in 1..Len(timestamps) :
                             /\ distance(target_ts) <= distance(timestamps[i])
                             /\ distance(timestamps[i]) = distance(target_ts)
                                   => target_ts <= timestamps[i]
                        /\ call.ret # <<>> => TimestampOf(call.ret[1]) = target_ts

\* at(t) was asked for a t that two stored timestamps are equally far from, and
\* returned a file
C7_Witness ==
    /\ call.op = "at"
    /\ call.ret # <<>>
    /\ LET timestamps == get_all_cache_timestamps(Tree)
       IN  \E i, j \in 1..Len(timestamps) :
             /\ timestamps[i] < timestamps[j]
             /\ call.arg - timestamps[i] = timestamps[j] - call.arg
             /\ call.resolved = <<timestamps[i]>>

\* C8: at(t) returns a file whenever a cache file with a valid timestamp exists
\* anywhere in the tree (stated for the timestamps above zero, which
\* get_all_cache_timestamps keeps).
C8_AtFindsAFile ==
    (call.op = "at" /\ \E f \in ValidFiles : TimestampOf(f) > 0) => call.ret # <<>>

\* C9: allTimestamps() is sorted ascending, holds only timestamps of cache files,
\* and holds each timestamp once.
C9_AllTimestampsDistinct ==
    (call.op = "all")
        => /\ \A i \in 1..Len(call.ret) : \E f \in ValidFiles : TimestampOf(f) = call.ret[i]
           /\ \A i, j \in 1..Len(call.ret) : i < j => call.ret[i] < call.ret[j]

\* C10: latest() returns a file of the greatest valid timestamp, none when there
\* is no cache file, and never a file whose name is no timestamp.
C10_LatestIsMaxValid ==
    (call.op = "latest")
        => /\ ValidFiles # {} =>
                /\ call.ret # <<>>
                /\ call.ret[1] \in ValidFiles
                /\ \A f \in ValidFiles : TimestampOf(f) <= TimestampOf(call.ret[1])
           /\ AllFiles(Tree) = {} => call.ret = <<>>
           /\ call.ret # <<>> => HasTimestamp(call.ret[1])

----------------------------------------------------------------------------
(* More properties of the migrator *)

\* C18: at every point of a dry run the files, their paths and contents, and the
\* directories are those the run started from.
C18_DryRunChangesNothing == (pc # "idle" /\ dry) => Tree = start

\* a dry run ends that reported a flat file to move, a misplaced file to fix and a
\* directory to remove
C18_Witness ==
    /\ RunEnds /\ dry
    /\ counts.flat_moved > 0 /\ counts.fixed > 0 /\ counts.dirs_removed > 0

RECURSIVE RunFlat(_, _)
\* the loop of migrate_flat_files of a real run, from a tree and the files to visit
RunFlat(fs, rest) ==
    IF rest = <<>> THEN fs
    ELSE IF FlatSkips(fs, Head(rest)) THEN RunFlat(fs, Tail(rest))
    ELSE RunFlat(Move(MkdirParents(fs, Parent(CorrectPath(Head(rest)))),
                      Head(rest), CorrectPath(Head(rest))),
                 Tail(rest))

RECURSIVE RunFix(_, _)
\* the loop of fix_misplaced_files of a real run
RunFix(fs, rest) ==
    IF rest = <<>> THEN fs
    ELSE IF FixDecision(fs, Head(rest)) # "fix" THEN RunFix(fs, Tail(rest))
    ELSE RunFix(Move(MkdirParents(fs, Parent(CorrectPath(Head(rest)))),
                     Head(rest), CorrectPath(Head(rest))),
                Tail(rest))

RECURSIVE RunCleanup(_, _)
\* the loop of cleanup_empty_dirs of a real run (the order among the directories
\* of one depth does not change the result)
RunCleanup(fs, remaining) ==
    IF remaining = {} THEN fs
    ELSE LET dirpath == CHOOSE d \in remaining : DeepestFirst(remaining, d)
         IN  RunCleanup(IF CleanupRemoves(fs, dirpath) THEN Rmdir(fs, dirpath) ELSE fs,
                        remaining \ {dirpath})

\* the tree one real migrate_cache call that runs to its end leaves
FullRun(fs) ==
    IF <<>> \notin fs.dirs THEN fs
    ELSE LET flat == RunFlat(fs, Sorted(FlatFiles(fs)))
             fixed == RunFix(flat, Sorted(HierarchicalFiles(flat)))
         IN  RunCleanup(fixed, fixed.dirs)

SamePayloads(fs, gs) ==
    /\ \A payload \in Payloads(fs) \cup Payloads(gs) : Copies(fs, payload) = Copies(gs, payload)
    /\ Cardinality(DOMAIN fs.files) = Cardinality(DOMAIN gs.files)

\* C19: when a real run is stopped, the tree holds every payload it held when the
\* run (or the first of a row of stopped runs) started; and a real run that then
\* runs to its end leaves the tree one uninterrupted run leaves from that start.
C19_InterruptSafe ==
    /\ (last # <<>> /\ ~Previous.complete) => SamePayloads(Previous.after, Previous.before)
    /\ (RunEnds /\ last # <<>> /\ ~Previous.complete /\ Previous.after = start)
          => Tree = FullRun(Previous.before)

\* a run ends that followed a run stopped after it had changed the tree, and
\* changed the tree further
C19_Witness ==
    /\ RunEnds /\ last # <<>> /\ ~Previous.complete /\ Previous.after = start
    /\ Previous.after # Previous.before
    /\ Tree # start
    /\ Tree.files # start.files

----------------------------------------------------------------------------
(* The path scheme as a pair of functions, evaluated on a host whose local *)
(* time is probe.tz seconds east of UTC                                    *)

\* utcoffset() of the host's zone, in seconds
TzOffsets == {0 - 43200, 0 - 18000, 0, 3600, 50400}

\* timestamps at day, month, year and leap-day borders
PathTimestamps ==
    {0, 86399, 86400, 2678399, 2678400, 5097600, 31535999, 31536000,
     68169600, 68255999, 68256000, 951782400, 951868800, 1700000000, 1710496800}

Extensions == {DotJsonGz, DotJson}

\* migrate_cache: get_timestamp_from_path(get_cache_path_for_timestamp(T, ext))
MigratorPath(timestamp, extension) ==
    /\ probe' = [probe EXCEPT !.result =
           <<[who |-> "migrator", timestamp |-> timestamp, extension |-> extension,
              path |-> get_cache_path_for_timestamp(timestamp, extension),
              parsed |-> get_timestamp_from_path(
                             get_cache_path_for_timestamp(timestamp, extension))]>>]
    /\ UNCHANGED <<files, dirs, call, writer, log, response, serve>>
    /\ UNCHANGED migratorVars

\* app.get_timestamp_from_path(fetch_cache.get_cache_path_for_timestamp(T))
StorePath(timestamp) ==
    /\ probe' = [probe EXCEPT !.result =
           <<[who |-> "store", timestamp |-> timestamp, extension |-> DotJsonGz,
              path |-> store_cache_path_for_timestamp(timestamp),
              parsed |-> [valid |-> TRUE,
                          value |-> app_get_timestamp_from_path(
                                        store_cache_path_for_timestamp(timestamp))]]>>]
    /\ UNCHANGED <<files, dirs, call, writer, log, response, serve>>
    /\ UNCHANGED migratorVars

InitPath ==
    /\ files = <<>>
    /\ dirs = {<<>>}
    /\ pc = "idle"
    /\ dry = FALSE
    /\ queue = <<>>
    /\ todo = {}
    /\ counts = ZeroCounts
    /\ start = NoTree
    /\ last = <<>>
    /\ call = NoCall
    /\ writer = NoWrite
    /\ log = <<>>
    /\ response = <<>>
    /\ serve = NoServe
    /\ \E tz \in TzOffsets : probe = [tz |-> tz, result |-> <<>>]

NextPath ==
    \/ \E timestamp \in PathTimestamps, extension \in Extensions :
           MigratorPath(timestamp, extension)
    \/ \E timestamp \in PathTimestamps : StorePath(timestamp)

SpecPath == InitPath /\ [][NextPath]_vars

\* C14: the timestamp parsed from the path made for T is T, for the migrator's pair
\* of functions with both extensions and for app.get_timestamp_from_path on the
\* store's path.
C14_RoundTrip ==
    probe.result # <<>> =>
        /\ probe.result[1].parsed.valid
        /\ probe.result[1].parsed.value = probe.result[1].timestamp

\* the round trip was made through the migrator's functions with .json.gz and a
\* ten-digit timestamp
C14_Witness ==
    /\ probe.result # <<>>
    /\ probe.result[1].who = "migrator"
    /\ probe.result[1].extension = DotJsonGz
    /\ probe.result[1].timestamp = 1700000000
    /\ probe.result[1].parsed = [valid |-> TRUE, value |-> 1700000000]

IsLeap(year) == (year % 4 = 0 /\ year % 100 # 0) \/ year % 400 = 0

DaysInMonth(year, month) ==
    IF month = 2 THEN (IF IsLeap(year) THEN 29 ELSE 28)
    ELSE IF month \in {4, 6, 9, 11} THEN 30 ELSE 31

RECURSIVE DaysBeforeMonth(_, _)
DaysBeforeMonth(year, month) ==
    IF month = 1 THEN 0
    ELSE DaysBeforeMonth(year, month - 1) + DaysInMonth(year, month - 1)

\* leap years among 1..year
LeapYearsThrough(year) == (year \div 4) - (year \div 100) + (year \div 400)

\* days from 1970-01-01 to the given date (year >= 1970)
DaysFromCivil(year, month, day) ==
    365 * (year - 1970) + (LeapYearsThrough(year - 1) - LeapYearsThrough(1969))
        + DaysBeforeMonth(year, month) + (day - 1)

\* path is <YYYYMM>/<DD>/<T><ext> for the UTC date of timestamp
IsBucketOf(path, timestamp, extension) ==
    /\ Len(path) = 3
    /\ Len(path[1]) = 6 /\ IntParses(path[1])
    /\ Len(path[2]) = 2 /\ IntParses(path[2])
    /\ LET year  == DigitsValue(SubSeq(path[1], 1, 4))
           month == DigitsValue(SubSeq(path[1], 5, 6))
           day   == DigitsValue(path[2])
       IN  /\ month \in 1..12
           /\ day \in 1..DaysInMonth(year, month)
           /\ DaysFromCivil(year, month, day) * 86400 <= timestamp
           /\ timestamp < DaysFromCivil(year, month, day) * 86400 + 86400
    /\ EndsWith(path[3], extension)
    /\ LET digits == SubSeq(path[3], 1, Len(path[3]) - Len(extension))
       IN  /\ IntParses(digits)
           /\ DigitsValue(digits) = timestamp
           /\ (Len(digits) > 1 => digits[1] # "0")

\* C15: whatever the host's local timezone, the migrator's and the store's path for
\* T is <YYYYMM>/<DD>/<T><ext> with the UTC calendar date of T (so the two agree).
C15_UtcBucket ==
    probe.result # <<>> =>
        IsBucketOf(probe.result[1].path, probe.result[1].timestamp,
                   probe.result[1].extension)

\* on a host east of UTC the store's path of the last second of 1970-01-01 UTC,
\* already 1970-01-02 in local time, is in the bucket 197001/01
C15_Witness ==
    /\ probe.tz = 3600
    /\ probe.result # <<>>
    /\ probe.result[1].who = "store"
    /\ probe.result[1].timestamp = 86399
    /\ probe.result[1].path[2] = <<"0", "1">>

----------------------------------------------------------------------------
(* More properties of the store queries *)

\* C16: a file whose name parses to an integer, 0 included, is an entry of the
\* enumeration: allTimestamps() lists its timestamp.
C16_ZeroIsListed ==
    call.op = "all" =>
        \A f \in AllFiles(Tree) :
            get_timestamp_from_path(f).valid
                => InList(get_timestamp_from_path(f).value, call.ret)

\* how often x occurs in a list
Occurrences(x, list) == Cardinality({i \in 1..Len(list) : list[i] = x})

\* C17: the timestamps /api/timepoints returns are the elements of allTimestamps()
\* from start to start + days * 86400, both ends included, each as often as it is
\* listed there, in ascending order; with an empty store there are none.
C17_WindowInclusive ==
    call.op = "window" =>
        LET all_timestamps == get_all_cache_timestamps(Tree)
        IN  /\ all_timestamps = <<>> => call.ret = <<>>
            /\ all_timestamps # <<>> =>
                 LET window_start == call.resolved[1]
                     window_end == window_start + call.arg * 86400
                 IN  /\ \A i \in 1..Len(call.ret) :
                            window_start <= call.ret[i] /\ call.ret[i] <= window_end
                     /\ \A i \in 1..Len(all_timestamps) :
                            (window_start <= all_timestamps[i]
                                /\ all_timestamps[i] <= window_end)
                              => Occurrences(all_timestamps[i], call.ret)
                                   = Occurrences(all_timestamps[i], all_timestamps)
                     /\ \A i \in 1..Len(call.ret), j \in 1..Len(call.ret) :
                            i < j => call.ret[i] <= call.ret[j]

\* a one-day window from 0 returned the stored timestamp 86400, its last second
C17_Witness ==
    /\ call.op = "window"
    /\ call.resolved = <<0>>
    /\ call.arg = 1
    /\ call.ret = <<100, 86400>>

----------------------------------------------------------------------------
(* Store.write: save_to_cache of fetch_cache.py, run by the fetcher process *)
(* (fetch_cache.main, from cron) while the serving process answers requests *)
(* from the same cache folder.  A file's contents are the sequence of the   *)
(* chunks written so far; a complete gzip file is <<body, GzipTrailer>>.    *)

\* the last chunk of a gzip stream (CRC32 and size)
GzipTrailer == <<"e", "n", "d">>

\* int(dt.timestamp()) of datetime.fromisoformat(fetched_at.replace("Z", "+00:00")):
\* an aware value is taken at its own offset, a naive one in the host's local time
iso_timestamp(fetched_at, host_tz) ==
    DaysFromCivil(fetched_at.year, fetched_at.month, fetched_at.day) * 86400
        + fetched_at.hour * 3600 + fetched_at.minute * 60 + fetched_at.second
        - (CASE fetched_at.form = "Z" -> 0
             [] fetched_at.form = "offset" -> fetched_at.offset
             [] fetched_at.form = "naive" -> host_tz)

\* fromisoformat raises ValueError on a malformed string; "" (no fetchedAt) is one;
\* a value that is no string raises AttributeError
IsoParses(fetched_at) == fetched_at.form \in {"Z", "offset", "naive"}

\* timestamp of save_to_cache
resolve_timestamp(data, host_tz, now) ==
    IF IsoParses(data.fetchedAt) THEN iso_timestamp(data.fetchedAt, host_tz) ELSE now

\* a mutant of OpenForWriting: mode 'at', the old contents stay
OpenForAppending(fs, filepath) ==
    [fs EXCEPT !.files =
        [p \in DOMAIN fs.files \cup {filepath} |->
            IF p \in DOMAIN fs.files THEN fs.files[p] ELSE <<>>]]

\* gzip.open(filepath, 'wt'): the file is created, or truncated when it exists
OpenForWriting(fs, filepath) ==
    [fs EXCEPT !.files =
        [p \in DOMAIN fs.files \cup {filepath} |->
            IF p = filepath THEN <<>> ELSE fs.files[p]]]

\* f.write(chunk) reaching the file
AppendChunk(fs, filepath, chunk) ==
    [fs EXCEPT !.files = [fs.files EXCEPT ![filepath] = Append(@, chunk)]]

\* the number of save_to_cache calls of a behaviour
MaxWrites == 3

\* save_to_cache up to the open: ensure_cache_folder, the timestamp, the path and
\* filepath.parent.mkdir(parents=True, exist_ok=True)
SaveStart(data, now) ==
    /\ writer.pc = "idle"
    /\ Len(log) < MaxWrites
    /\ LET timestamp == resolve_timestamp(data, probe.tz, now)
           filepath == store_cache_path_for_timestamp(timestamp)
       IN  /\ writer' = [pc |-> "open", data |-> <<data>>, timestamp |-> timestamp,
                         filepath |-> filepath]
           /\ dirs' = MkdirParents(Tree, Parent(filepath)).dirs
    /\ UNCHANGED <<files, call, log, response, probe, serve>>
    /\ UNCHANGED migratorVars

\* with gzip.open(filepath, 'wt', encoding='utf-8') as f
SaveOpen ==
    /\ writer.pc = "open"
    /\ files' = OpenForWriting(Tree, writer.filepath).files
    /\ writer' = [writer EXCEPT !.pc = "dump"]
    /\ UNCHANGED <<dirs, call, log, response, probe, serve>>
    /\ UNCHANGED migratorVars

\* json.dump(optimized_data, f): the compressed body reaches the file
SaveDump ==
    /\ writer.pc = "dump"
    /\ files' = AppendChunk(Tree, writer.filepath, writer.data[1].payload).files
    /\ writer' = [writer EXCEPT !.pc = "close"]
    /\ UNCHANGED <<dirs, call, log, response, probe, serve>>
    /\ UNCHANGED migratorVars

\* the end of the with block writes the trailer and closes; return filepath
SaveClose ==
    /\ writer.pc = "close"
    /\ files' = AppendChunk(Tree, writer.filepath, GzipTrailer).files
    /\ log' = Append(log, [data |-> writer.data[1], timestamp |-> writer.timestamp,
                           filepath |-> writer.filepath])
    /\ writer' = NoWrite
    /\ UNCHANGED <<dirs, call, response, probe, serve>>
    /\ UNCHANGED migratorVars

\* GET /api/cluster-status of the serving process when a cache file exists: the
\* latest .gz file is read and sent as it is (with no cache file the handler
\* fetches; SpecServe has that branch)
ReadLatest ==
    /\ \E latest_file \in get_latest_cached_file(Tree) :
          /\ latest_file # <<>>
          /\ Suffix(FileName(latest_file[1])) = DotGz
          /\ response' = <<[status |-> 200, path |-> latest_file[1],
                             content |-> files[latest_file[1]]]>>
    /\ UNCHANGED <<files, dirs, call, writer, log, probe, serve>>
    /\ UNCHANGED migratorVars

IsoZ(year, month, day, hour, minute, second) ==
    [form |-> "Z", year |-> year, month |-> month, day |-> day,
     hour |-> hour, minute |-> minute, second |-> second, offset |-> 0]

NoIso(form) ==
    [form |-> form, year |-> 0, month |-> 0, day |-> 0,
     hour |-> 0, minute |-> 0, second |-> 0, offset |-> 0]

\* the upstream responses: fetchedAt and a name for the rest of the document
Snapshots ==
    {[fetchedAt |-> IsoZ(1970, 1, 1, 0, 1, 40), payload |-> <<"a">>],
     [fetchedAt |-> IsoZ(1970, 1, 1, 0, 1, 40), payload |-> <<"b">>],
     [fetchedAt |-> [IsoZ(1970, 1, 1, 1, 1, 40) EXCEPT !.form = "offset", !.offset = 3600],
      payload |-> <<"c">>],
     [fetchedAt |-> IsoZ(1970, 1, 2, 0, 0, 0), payload |-> <<"d">>],
     [fetchedAt |-> IsoZ(1970, 1, 1, 0, 0, 0), payload |-> <<"e">>],
     [fetchedAt |-> IsoZ(2024, 3, 15, 10, 0, 0), payload |-> <<"f">>],
     [fetchedAt |-> [IsoZ(1970, 1, 1, 1, 1, 40) EXCEPT !.form = "naive"], payload |-> <<"g">>],
     [fetchedAt |-> NoIso("invalid"), payload |-> <<"h">>],
     [fetchedAt |-> NoIso("missing"), payload |-> <<"i">>]}

\* an empty store, the cache folder made or not yet
InitWrite ==
    /\ files = <<>>
    /\ dirs \in {{}, {<<>>}}
    /\ pc = "idle"
    /\ dry = FALSE
    /\ queue = <<>>
    /\ todo = {}
    /\ counts = ZeroCounts
    /\ start = NoTree
    /\ last = <<>>
    /\ call = NoCall
    /\ writer = NoWrite
    /\ log = <<>>
    /\ response = <<>>
    /\ serve = NoServe
    /\ \E tz \in {0, 3600} : probe = [tz |-> tz, result |-> <<>>]

NextWrite ==
    \/ \E data \in Snapshots, now \in Clock : SaveStart(data, now)
    \/ SaveOpen
    \/ SaveDump
    \/ SaveClose
    \/ ReadLatest

SpecWrite == InitWrite /\ [][NextWrite]_vars

\* a complete cache file
IsComplete(content) == Len(content) = 2 /\ content[2] = GzipTrailer

\* C11: what a reader of the cache is handed is always a complete file.
C11_ReaderSeesCompleteFile ==
    response # <<>> => IsComplete(response[1].content)

\* the save_to_cache calls that were not followed by one with the same timestamp
LastWrites == {i \in 1..Len(log) : \A j \in (i + 1)..Len(log) : log[j].timestamp # log[i].timestamp}

\* C12: between the writes on a store that was empty, there are as many files as
\* distinct timestamps written; the writes of one timestamp went to one path, and
\* the file there holds the payload of the last of them and nothing else.
C12_OneEntryPerTimestamp ==
    writer.pc = "idle" =>
        /\ Cardinality(DOMAIN files) = Cardinality({log[i].timestamp : i \in 1..Len(log)})
        /\ \A i \in 1..Len(log), j \in 1..Len(log) :
               log[i].timestamp = log[j].timestamp => log[i].filepath = log[j].filepath
        /\ \A i \in LastWrites :
               /\ log[i].filepath \in DOMAIN files
               /\ files[log[i].filepath] = <<log[i].data.payload, GzipTrailer>>

\* three writes were made, two of them ("a", then "c" with an offset form of the
\* same instant) of one timestamp, and the file holds the later payload
C12_Witness ==
    /\ writer.pc = "idle"
    /\ Len(log) = 3
    /\ log[1].data.payload = <<"a">>
    /\ log[3].data.payload = <<"c">>
    /\ log[1].timestamp = log[3].timestamp
    /\ log[2].timestamp # log[1].timestamp
    /\ files[log[3].filepath] = <<<<"c">>, GzipTrailer>>

\* timestamp is the instant a fetchedAt with a zone denotes
Denotes(fetched_at, timestamp) ==
    LET local == timestamp + fetched_at.offset
    IN  /\ fetched_at.form \in {"Z", "offset"}
        /\ CivilDate(local) =
               [year |-> fetched_at.year, month |-> fetched_at.month, day |-> fetched_at.day]
        /\ local % 86400 = fetched_at.hour * 3600 + fetched_at.minute * 60 + fetched_at.second

\* C13: when a write of a snapshot whose fetchedAt denotes the instant T has
\* returned, a file is at <YYYYMM>/<DD>/<T>.json.gz for the UTC date of T, T is in
\* allTimestamps(), and latest() is that file if T is greater than the timestamp
\* of every other file.
C13_WrittenIsFound ==
    (writer.pc = "idle" /\ log # <<>> /\ log[Len(log)].data.fetchedAt.form \in {"Z", "offset"})
        => \E T \in {log[Len(log)].timestamp} :
             /\ Denotes(log[Len(log)].data.fetchedAt, T)
             /\ \E f \in DOMAIN files :
                    /\ IsBucketOf(f, T, DotJsonGz)
                    /\ InList(T, get_all_cache_timestamps(Tree))
                    /\ (\A g \in DOMAIN files \ {f} : app_get_timestamp_from_path(g) < T)
                          => get_latest_cached_file(Tree) = {<<f>>}

----------------------------------------------------------------------------
(* The serving process (app.py): lifespan, the periodic task and the        *)
(* request handlers, all coroutines of one event loop.  A step is the code  *)
(* of one coroutine from one await to the next; the only await that         *)
(* suspends for long is "await client.get" of fetch_and_cache_async, so a   *)
(* fetch cycle is in flight from the step that starts it to the step that   *)
(* resumes it with the upstream's answer.                                   *)

\* save_to_cache as one step of the event loop
save_to_cache(fs, data, host_tz, now) ==
    LET filepath == store_cache_path_for_timestamp(resolve_timestamp(data, host_tz, now))
        made == MkdirParents(fs, Parent(filepath))
        opened == OpenForWriting(made, filepath)
    IN  AppendChunk(AppendChunk(opened, filepath, data.payload), filepath, GzipTrailer)

\* where an OSError (disk full, permission denied) can end save_to_cache
DiskStages == {"mkdir", "open", "dump", "close"}

\* the tree save_to_cache leaves when it raises OSError at a stage: at the mkdir
\* nothing was made, at the open the directories were, at the dump the file is
\* there and empty, at the close the body is there without the trailer
save_fails(fs, data, host_tz, now, stage) ==
    LET filepath == store_cache_path_for_timestamp(resolve_timestamp(data, host_tz, now))
        made == MkdirParents(fs, Parent(filepath))
        opened == OpenForWriting(made, filepath)
    IN  CASE stage = "mkdir" -> fs
          [] stage = "open" -> made
          [] stage = "dump" -> opened
          [] stage = "close" -> AppendChunk(opened, filepath, data.payload)

\* what the upstream answers: a document, or an error (no answer, a status that
\* raise_for_status rejects, a body that is no JSON)
UpstreamAnswers ==
    {<<d>> : d \in {s \in Snapshots : s.payload \in {<<"a">>, <<"d">>}}} \cup {<<>>}

\* how the disk treats the save_to_cache of a cycle
DiskOutcomes == {"ok"} \cup DiskStages

\* a mutant of ExceptCatches: CancelledError is caught as well (an Exception
\* before Python 3.8)
ExceptCatchesAll(exc) == TRUE

\* a mutant of ExceptCatches: no try around the fetch and the save
ExceptCatchesNothing(exc) == FALSE

\* "except Exception" of fetch_and_cache_async: httpx errors and OSError are
\* Exceptions, asyncio.CancelledError is a BaseException
ExceptCatches(exc) == exc # "CancelledError"

\* how a cycle that resumes with the upstream's answer ends
Outcome(answer, disk) ==
    IF answer = <<>> THEN "upstream" ELSE IF disk # "ok" THEN "disk" ELSE "saved"

\* the tree after fetch_and_cache resumes with the upstream's answer
AfterAnswer(fs, answer, disk, host_tz, now) ==
    CASE Outcome(answer, disk) = "upstream" -> fs
      [] Outcome(answer, disk) = "disk" -> save_fails(fs, answer[1], host_tz, now, disk)
      [] Outcome(answer, disk) = "saved" -> save_to_cache(fs, answer[1], host_tz, now)

\* the value app.fetch_and_cache returns: the path, or None
Returned(answer, disk, host_tz, now) ==
    IF Outcome(answer, disk) = "saved"
    THEN <<store_cache_path_for_timestamp(resolve_timestamp(answer[1], host_tz, now))>>
    ELSE <<>>

\* the globals after app.fetch_and_cache returns to who called it
GlobalsAfter(sv, who, answer, disk, host_tz, now) ==
    IF Returned(answer, disk, host_tz, now) = <<>>
    THEN [sv EXCEPT !.fetch_error = <<"Fetch failed">>,
                    !.cycle = [who |-> who, outcome |-> Outcome(answer, disk),
                               returned |-> <<>>]]
    ELSE [sv EXCEPT !.last_fetch_time = <<now>>, !.fetch_error = <<>>,
                    !.cycle = [who |-> who, outcome |-> "saved",
                               returned |-> Returned(answer, disk, host_tz, now)]]

\* initial_fetch returns without a fetch: load_cached_data() gives a document
\* (every file of the store the process starts on is a complete one), there is a
\* latest file and int(latest_file.stem) succeeds
UsesCache(fs, latest_file) ==
    /\ latest_file # <<>>
    /\ IntParses(PathStem(FileName(latest_file[1])))

\* lifespan up to its first suspension: initial_fetch either returns at once, and
\* the periodic task is created, or awaits the upstream
AppStart ==
    /\ serve.phase = "off"
    /\ \E latest_file \in get_latest_cached_file(Tree) :
          IF UsesCache(Tree, latest_file)
          THEN serve' = [serve EXCEPT !.phase = "serving", !.periodic = "created",
                            !.last_fetch_time = <<DigitsValue(PathStem(FileName(latest_file[1])))>>]
          ELSE serve' = [serve EXCEPT !.phase = "startup", !.initial = "fetching"]
    /\ UNCHANGED <<files, dirs, call, writer, log, response, probe>>
    /\ UNCHANGED migratorVars

\* the startup fetch resumes; lifespan creates the periodic task and yields
InitialFetchResume(answer, disk, now) ==
    /\ serve.phase = "startup"
    /\ serve.initial = "fetching"
    /\ files' = AfterAnswer(Tree, answer, disk, probe.tz, now).files
    /\ dirs' = AfterAnswer(Tree, answer, disk, probe.tz, now).dirs
    /\ serve' = [GlobalsAfter(serve, "initial", answer, disk, probe.tz, now) EXCEPT
                    !.phase = "serving", !.initial = "done", !.periodic = "created"]
    /\ UNCHANGED <<call, writer, log, response, probe>>
    /\ UNCHANGED migratorVars

\* periodic_fetch: the task's first step, or the end of asyncio.sleep; the cycle
\* awaits the upstream
PeriodicFetch ==
    /\ serve.phase \in {"serving", "stopping"}
    /\ serve.periodic \in {"created", "sleeping"}
    /\ serve' = [serve EXCEPT !.periodic = "fetching"]
    /\ UNCHANGED <<files, dirs, call, writer, log, response, probe>>
    /\ UNCHANGED migratorVars

\* the exception a cycle raises inside fetch_and_cache_async, "" for none
Raised(answer, disk) ==
    CASE Outcome(answer, disk) = "upstream" -> "HTTPError"
      [] Outcome(answer, disk) = "disk" -> "OSError"
      [] Outcome(answer, disk) = "saved" -> ""

\* the periodic cycle resumes (client.get answers or times out after 30 s) and
\* the task goes to sleep; an exception that nothing caught would end the task
PeriodicResume(answer, disk, now) ==
    /\ serve.phase \in {"serving", "stopping"}
    /\ serve.periodic = "fetching"
    /\ files' = AfterAnswer(Tree, answer, disk, probe.tz, now).files
    /\ dirs' = AfterAnswer(Tree, answer, disk, probe.tz, now).dirs
    /\ IF Raised(answer, disk) = "" \/ ExceptCatches(Raised(answer, disk))
       THEN serve' = [GlobalsAfter(serve, "periodic", answer, disk, probe.tz, now)
                         EXCEPT !.periodic = "sleeping"]
       ELSE serve' = [serve EXCEPT !.periodic = "crashed"]
    /\ UNCHANGED <<call, writer, log, response, probe>>
    /\ UNCHANGED migratorVars

\* the response of get_cluster_status for a latest file (None: 503)
StatusResponse(fs, latest_file) ==
    IF latest_file = <<>>
    THEN <<[status |-> 503, path |-> <<>>, content |-> <<>>]>>
    ELSE <<[status |-> 200, path |-> latest_file[1], content |-> fs.files[latest_file[1]]]>>

\* the number of request handlers that may await a fetch at one time
MaxHandlers == 2

\* GET /api/cluster-status: with a cache file the handler answers at once; with
\* none it starts a fetch and awaits the upstream
RequestStatus ==
    /\ serve.phase = "serving"
    /\ \E latest_file \in get_latest_cached_file(Tree) :
          IF latest_file = <<>>
          THEN /\ serve.handlers < MaxHandlers
               /\ serve' = [serve EXCEPT !.handlers = @ + 1]
               /\ UNCHANGED response
          ELSE /\ response' = StatusResponse(Tree, latest_file)
               /\ UNCHANGED serve
    /\ UNCHANGED <<files, dirs, call, writer, log, probe>>
    /\ UNCHANGED migratorVars

\* a handler's fetch resumes; the handler looks for the latest file again and
\* answers
RequestResume(answer, disk, now) ==
    /\ serve.phase = "serving"
    /\ serve.handlers > 0
    /\ files' = AfterAnswer(Tree, answer, disk, probe.tz, now).files
    /\ dirs' = AfterAnswer(Tree, answer, disk, probe.tz, now).dirs
    /\ serve' = [GlobalsAfter(serve, "handler", answer, disk, probe.tz, now)
                    EXCEPT !.handlers = @ - 1]
    /\ \E latest_file \in get_latest_cached_file(
                              AfterAnswer(Tree, answer, disk, probe.tz, now)) :
          response' = StatusResponse(AfterAnswer(Tree, answer, disk, probe.tz, now),
                                     latest_file)
    /\ UNCHANGED <<call, writer, log, probe>>
    /\ UNCHANGED migratorVars

\* lifespan after the yield, run by the server when every request has been
\* answered: task.cancel() raises CancelledError in the periodic task where it is
\* suspended (before its first step, at "await client.get" or at asyncio.sleep);
\* "await task" returns when the task has ended.  Only an except clause around
\* the await that caught the CancelledError would let the task go on.
Shutdown ==
    /\ serve.phase = "serving"
    /\ serve.handlers = 0
    /\ IF serve.periodic = "fetching" /\ ExceptCatches("CancelledError")
       THEN serve' = [serve EXCEPT !.phase = "stopping", !.periodic = "sleeping",
                         !.cancelled_in = serve.periodic,
                         !.fetch_error = <<"Fetch failed">>,
                         !.cycle = [who |-> "periodic", outcome |-> "cancelled",
                                    returned |-> <<>>]]
       ELSE serve' = [serve EXCEPT !.phase = "stopped", !.periodic = "cancelled",
                         !.cancelled_in = serve.periodic]
    /\ UNCHANGED <<files, dirs, call, writer, log, response, probe>>
    /\ UNCHANGED migratorVars

\* a store of at most one file, or no cache folder, and the process not started
InitServe ==
    /\ \/ \E F \in SubsetsUpTo(StoreUniverse, 1) : InitTree(F, {})
       \/ files = <<>> /\ dirs = {}
    /\ InitRest

\* the serving process while it is up
NextRunning ==
    \/ AppStart
    \/ \E answer \in UpstreamAnswers, disk \in DiskOutcomes, now \in Clock :
           InitialFetchResume(answer, disk, now)
    \/ PeriodicFetch
    \/ \E answer \in UpstreamAnswers, disk \in DiskOutcomes, now \in Clock :
           PeriodicResume(answer, disk, now)
    \/ RequestStatus
    \/ \E answer \in UpstreamAnswers, disk \in DiskOutcomes, now \in Clock :
           RequestResume(answer, disk, now)

NextServe ==
    \/ NextRunning
    \/ Shutdown

SpecServe == InitServe /\ [][NextServe]_vars

\* the serving process that is not shut down: the event loop resumes the periodic
\* task when its sleep is over, and client.get always returns or raises, at the
\* latest when its timeout of 30 s is over
SpecRunning ==
    /\ InitServe
    /\ [][NextRunning]_vars
    /\ WF_vars(PeriodicFetch)
    /\ WF_vars(\E answer \in UpstreamAnswers, disk \in DiskOutcomes, now \in Clock :
                   PeriodicResume(answer, disk, now))

\* the fetch cycles that await the upstream
InFlight ==
    (IF serve.initial = "fetching" THEN 1 ELSE 0)
        + (IF serve.periodic = "fetching" THEN 1 ELSE 0)
        + serve.handlers

\* C20: at most one fetch cycle awaits the upstream at any time: the startup fetch
\* is over before the periodic task exists, the periodic task has one cycle at a
\* time, and no request handler has one while another cycle is in flight.
C20_OneCycleInFlight ==
    /\ InFlight <= 1
    /\ serve.initial = "fetching" => serve.periodic = "none"

----------------------------------------------------------------------------
(* Phase 3 of the migrator *)

\* the files at or below a directory
FilesBelow(fs, dirpath) ==
    {f \in DOMAIN fs.files : Len(f) > Len(dirpath) /\ SubSeq(f, 1, Len(dirpath)) = dirpath}

\* after phase 3 of a real run: no directory below the root is empty, the root is
\* there, and every directory above a file is there
CleanedUp ==
    (RunEnds /\ ~dry) =>
        /\ \A d \in dirs \ {<<>>} : HasEntries(Tree, d)
        /\ <<>> \in dirs
        /\ \A f \in DOMAIN files : Ancestors(Parent(f)) \subseteq dirs

\* a step of phase 3 of a real run deletes only directories, never the root and
\* never one with a file below it, and adds to dirs_removed the number it deleted
CleanupStepCounts ==
    (pc = "phase3" /\ ~dry) =>
        /\ dirs' \subseteq dirs
        /\ files' = files
        /\ \A d \in dirs \ dirs' : d # <<>> /\ FilesBelow(Tree, d) = {}
        /\ counts'.dirs_removed = counts.dirs_removed + Cardinality(dirs \ dirs')

\* C21: phase 3 of a real run leaves no directory below the root empty (a parent
\* of nothing but empty directories goes too), keeps the root and every directory
\* with a file in or below it, and dirs_removed, 0 when the phase starts, counts
\* the directories deleted.
C21_CleanupDeepestFirst ==
    /\ [](pc \in {"phase1", "phase2"} => counts.dirs_removed = 0)
    /\ []CleanedUp
    /\ [][CleanupStepCounts]_vars

\* a real run ends that deleted an empty directory and then its parent, which had
\* held nothing else
C21_Witness ==
    /\ RunEnds /\ ~dry
    /\ <<D196912>> \in start.dirs /\ <<D196912, <<"3", "1">>>> \in start.dirs
    /\ <<D196912>> \notin dirs /\ <<D196912, <<"3", "1">>>> \notin dirs
    /\ counts.dirs_removed >= 2

----------------------------------------------------------------------------
(* Failure and cancellation of fetch cycles *)

\* the fetch_and_cache call that returned last failed on a disk error
DiskFailure == serve.cycle.outcome = "disk"

\* a cycle that ends on a disk error ends there: one cycle fewer is in flight and,
\* when it was the periodic task's, the task sleeps
EndsWithoutRetry ==
    (InFlight' < InFlight /\ serve'.cycle.outcome = "disk") =>
        /\ InFlight' = InFlight - 1
        /\ serve'.cycle.who = "periodic" => serve'.periodic = "sleeping"

\* C22: a cycle whose save_to_cache raised a disk error returns None and leaves
\* fetch_error set; it is not tried again within the cycle; the periodic task
\* does not end, and after a periodic cycle that failed so the task starts
\* another cycle.
C22_DiskErrorFailsCycle ==
    /\ [](DiskFailure => (serve.cycle.returned = <<>>
                            /\ serve.fetch_error = <<"Fetch failed">>))
    /\ [][EndsWithoutRetry]_vars
    /\ [](serve.periodic # "crashed")
    /\ ((DiskFailure /\ serve.cycle.who = "periodic" /\ serve.periodic = "sleeping")
            ~> serve.periodic = "fetching")

\* the periodic task awaits the upstream again after its last cycle failed on a
\* disk error that left a file without its trailer
C22_Witness ==
    /\ DiskFailure
    /\ serve.cycle.who = "periodic"
    /\ serve.periodic = "fetching"
    /\ \E f \in DOMAIN files : files[f] = <<<<"a">>>>

\* the step that cancels the periodic task, and every step after it, leaves the
\* files and the directories as they are
CancelChangesNothing ==
    (serve.cancelled_in # "none" \/ serve'.cancelled_in # "none")
        => (files' = files /\ dirs' = dirs)

\* C23: task.cancel() ends the periodic task wherever it is suspended, and neither
\* the cancellation nor anything after it creates or changes a file: what the
\* store holds is what the cycles that returned before had left.
C23_CancelPersistsNothing ==
    /\ [](serve.cancelled_in # "none" =>
            (serve.periodic = "cancelled" /\ serve.phase = "stopped"))
    /\ [][CancelChangesNothing]_vars

\* the task was cancelled while its cycle awaited the upstream; the complete entry
\* of the cycle before is in the store
C23_Witness ==
    /\ serve.phase = "stopped"
    /\ serve.cancelled_in = "fetching"
    /\ serve.cycle.who = "periodic"
    /\ serve.cycle.outcome = "saved"
    /\ files[serve.cycle.returned[1]] = <<<<"a">>, GzipTrailer>>

----------------------------------------------------------------------------
(* The transformer: transform_to_optimized of fetch_cache.py.  A JSON value *)
(* is a record of its type, its text and its number; a dict is a function   *)
(* from its keys; a key that may be absent is <<>> or <<value>>.            *)

JNull == [t |-> "null", s |-> "", n |-> 0]

JStr(text) == [t |-> "str", s |-> text, n |-> 0]

JNum(number) == [t |-> "num", s |-> "", n |-> number]

\* a mutant of Truthy: "if user is not None"
NotNone(user) == user.t # "null"

\* "if user": None, "" and 0 are false
Truthy(user) ==
    CASE user.t = "null" -> FALSE
      [] user.t = "str" -> user.s # ""
      [] user.t = "num" -> user.n # 0

\* d[key] = value
DictSet(d, key, value) ==
    [k \in DOMAIN d \cup {key} |-> IF k = key THEN value ELSE d[k]]

\* d.get(key, default) for a dict of string keys
DictGet(d, key, default) == IF key \in DOMAIN d THEN d[key] ELSE default

RECURSIVE SparseUpTo(_, _)
\* {str(i): user for i, user in enumerate(slots) if user}, the first n elements
SparseUpTo(slots, n) ==
    IF n = 0 THEN <<>>
    ELSE IF Truthy(slots[n]) THEN DictSet(SparseUpTo(slots, n - 1), Str(n - 1), slots[n])
    ELSE SparseUpTo(slots, n - 1)

\* the sparse form of host.get(key, [])
Sparse(slots_field) ==
    IF slots_field = <<>> THEN <<>> ELSE SparseUpTo(slots_field[1], Len(slots_field[1]))

RECURSIVE GroupOfHosts(_, _, _)
\* "for hostname in hostnames: hostname_to_group[hostname] = group_name"
GroupOfHosts(mapping, group_name, hostnames) ==
    IF hostnames = <<>> THEN mapping
    ELSE GroupOfHosts(DictSet(mapping, Head(hostnames), group_name), group_name,
                      Tail(hostnames))

RECURSIVE HostnameToGroup(_, _)
\* hostname_to_group after the groups (name, hostnames), in the dict's order
HostnameToGroup(mapping, groups) ==
    IF groups = <<>> THEN mapping
    ELSE HostnameToGroup(GroupOfHosts(mapping, Head(groups).name, Head(groups).hostnames),
                         Tail(groups))

\* optimized_host
OptimizedHost(host, hostname_to_group) ==
    [hostname |-> host.hostname,
     cpuSlots |-> Sparse(host.cpuSlots),
     gpuSlots |-> Sparse(host.gpuSlots),
     hardwareGroup |-> DictGet(hostname_to_group, host.hostname, "Unknown")]

\* transform_to_optimized(data), of the fields of this model
transform_to_optimized(data) ==
    LET hostname_to_group == HostnameToGroup(<<>>, data.hardwareGroups)
    IN  [hostDetails |-> [i \in 1..Len(data.hostDetails) |->
                             OptimizedHost(data.hostDetails[i], hostname_to_group)],
         motd |-> data.motd,
         fetchedAt |-> data.fetchedAt]

\* the longest slot array of which every filling is tried
MaxSlots == 3

\* occupants: none, the empty name, two names (one reads as a number), and the
\* numbers 0 and 7
SlotValues == {JNull, JStr(""), JStr("alice"), JStr("0"), JNum(0), JNum(7)}

RECURSIVE ArraysUpTo(_, _)
ArraysUpTo(V, n) ==
    IF n = 0 THEN {<<>>}
    ELSE ArraysUpTo(V, n - 1) \cup {Append(a, v) : a \in {b \in ArraysUpTo(V, n - 1) : Len(b) = n - 1}, v \in V}

\* twelve slots with occupants at 0, 9, 10 and 11
LongArray ==
    <<JStr("alice"), JNull, JNull, JStr(""), JNull, JNum(0), JNull, JNull, JNull,
      JStr("bob"), JStr("alice"), JNum(7)>>

\* a host whose arrays are both absent
BareHost == [hostname |-> "h0", cpuSlots |-> <<>>, gpuSlots |-> <<>>]

RawSnapshots ==
    {[hostDetails |-> more \o <<[hostname |-> hostname, cpuSlots |-> <<cpu>>, gpuSlots |-> gpu]>>,
      hardwareGroups |-> groups, motd |-> "motd", fetchedAt |-> "1970-01-01T00:01:40Z"] :
        more \in {<<>>, <<BareHost>>},
        hostname \in {"h1", "h2"},
        cpu \in ArraysUpTo(SlotValues, MaxSlots) \cup {LongArray},
        gpu \in {<<>>, <<<<>>>>, <<LongArray>>},
        groups \in {<<>>, <<[name |-> "g1", hostnames |-> <<"h1", "h0">>],
                           [name |-> "g2", hostnames |-> <<"h1">>]>>}}

\* optimized_data = transform_to_optimized(data), of the document received
Transform ==
    /\ probe.result # <<>>
    /\ probe.result[1].who = "raw"
    /\ probe' = [probe EXCEPT !.result =
           <<[who |-> "transform", data |-> probe.result[1].data,
              optimized |-> transform_to_optimized(probe.result[1].data)]>>]
    /\ UNCHANGED <<files, dirs, call, writer, log, response, serve>>
    /\ UNCHANGED migratorVars

\* a document has been received from the upstream
InitTransform ==
    /\ files = <<>>
    /\ dirs = {<<>>}
    /\ pc = "idle"
    /\ dry = FALSE
    /\ queue = <<>>
    /\ todo = {}
    /\ counts = ZeroCounts
    /\ start = NoTree
    /\ last = <<>>
    /\ call = NoCall
    /\ writer = NoWrite
    /\ log = <<>>
    /\ response = <<>>
    /\ serve = NoServe
    /\ \E data \in RawSnapshots :
          probe = [tz |-> 0,
                   result |-> <<[who |-> "raw", data |-> data,
                                 optimized |-> [hostDetails |-> <<>>, motd |-> "",
                                                fetchedAt |-> ""]]>>]

NextTransform == Transform

SpecTransform == InitTransform /\ [][NextTransform]_vars

\* the dense array of a field that may be absent
Dense(slots_field) == IF slots_field = <<>> THEN <<>> ELSE slots_field[1]

\* the indices of a dense array that hold an occupant
Occupied(dense) == {i \in 0..(Len(dense) - 1) : Truthy(dense[i + 1])}

\* key is the decimal form of a natural number
IsDecimal(key) == IntParses(key) /\ (Len(key) > 1 => key[1] # "0")

\* sparse has exactly one key per occupied index of dense, its decimal form, with
\* the occupant as its value, and no value is None, "" or 0
IsSparseOf(sparse, dense) ==
    /\ \A key \in DOMAIN sparse :
          /\ IsDecimal(key)
          /\ DigitsValue(key) \in Occupied(dense)
          /\ sparse[key] = dense[DigitsValue(key) + 1]
          /\ sparse[key] \notin {JNull, JStr(""), JNum(0)}
    /\ \A i \in Occupied(dense) : \E key \in DOMAIN sparse : DigitsValue(key) = i
    /\ Cardinality(DOMAIN sparse) = Cardinality(Occupied(dense))
    /\ (0 \in Occupied(dense)) <=> (<<"0">> \in DOMAIN sparse)

\* C24: for every host of the optimized snapshot, cpuSlots and gpuSlots are maps
\* whose keys are exactly the decimal forms of the indices of the dense array that
\* hold a truthy occupant ("0" for index 0), each with that occupant as its value,
\* and no value is empty.
C24_SparseSlots ==
    (probe.result # <<>> /\ probe.result[1].who = "transform") =>
        LET data == probe.result[1].data
            optimized == probe.result[1].optimized
        IN  /\ Len(optimized.hostDetails) = Len(data.hostDetails)
            /\ \A i \in 1..Len(data.hostDetails) :
                  /\ IsSparseOf(optimized.hostDetails[i].cpuSlots,
                                Dense(data.hostDetails[i].cpuSlots))
                  /\ IsSparseOf(optimized.hostDetails[i].gpuSlots,
                                Dense(data.hostDetails[i].gpuSlots))

\* the twelve-slot array became the map of the keys "0", "9", "10" and "11"
C24_Witness ==
    /\ probe.result # <<>>
    /\ probe.result[1].who = "transform"
    /\ probe.result[1].data.hostDetails[1].cpuSlots = <<LongArray>>
    /\ DOMAIN probe.result[1].optimized.hostDetails[1].cpuSlots
          = {<<"0">>, <<"9">>, <<"1", "0">>, <<"1", "1">>}
    /\ probe.result[1].optimized.hostDetails[1].cpuSlots[<<"1", "0">>] = JStr("alice")

====
